---- MODULE Spec2Model ----
(***************************************************************************)
(* UnvisitedIterator<T> (src/src/lib.rs): a double-ended pending queue     *)
(* `inner` coupled with a `visited` set.  `next` pops from the front of    *)
(* `inner` until it finds a value that is not in `visited`, records it and *)
(* returns it; `push_front` / `push_back` insert without any check.        *)
(*                                                                         *)
(* Option<T> is modelled with None == 0 and Some(v) == v for v \in Values. *)
(* Besides the two fields of the struct the model keeps history variables  *)
(* (how the instance was built, what next has returned, the most recent    *)
(* calls) so that properties of call sequences are state predicates.       *)
(*                                                                         *)
(* Spec      calls are atomic steps; safety properties.                    *)
(* SpecSteps next runs one loop iteration per step; termination of next.   *)
(* SpecFair  Spec with an owner that keeps calling next; liveness.         *)
(***************************************************************************)
EXTENDS Integers, Sequences, FiniteSets

\* ---------------------------------------------------------------- bounds
NumValues == 3      \* the element type T has NumValues values
MaxLen == 4         \* longest sequence handed to from_iter
MaxPending == 2     \* pushes are modelled while inner is shorter than this
MaxLog == 3         \* number of most recent calls that are remembered

Values == 1 .. NumValues
None == 0
Option == Values \cup {None}

RECURSIVE SeqsUpTo(_)
SeqsUpTo(n) ==
    IF n = 0 THEN {<<>>}
    ELSE LET shorter == SeqsUpTo(n - 1)
         IN  shorter \cup {Append(s, v) : s \in {t \in shorter : Len(t) = n - 1}, v \in Values}

Sources == SeqsUpTo(MaxLen)

\* ------------------------------------------------- the code, as operators

\* Variant of push_front: inserts at the tail.
push_front_at_back(inn, value) == Append(inn, value)

\* VecDeque::push_front
push_front(inn, value) == <<value>> \o inn

\* Variant of push_back: inserts at the head.
push_back_at_front(inn, value) == <<value>> \o inn

\* Variant of push_back: a value that is already pending is not added again.
push_back_unique(inn, value) ==
    IF \E i \in 1 .. Len(inn) : inn[i] = value THEN inn ELSE Append(inn, value)

\* VecDeque::push_back
push_back(inn, value) == Append(inn, value)

\* iter.collect::<Vec<_>>().into(): the source is walked front to back and
\* each item is pushed at the end of the collection built so far.
RECURSIVE collect_from(_, _)
collect_from(acc, iter) ==
    IF iter = <<>> THEN acc
    ELSE collect_from(Append(acc, Head(iter)), Tail(iter))

\* Variant of collect: each item is put in front of the ones collected so far.
RECURSIVE collect_reversed(_)
collect_reversed(iter) ==
    IF iter = <<>> THEN <<>>
    ELSE Append(collect_reversed(Tail(iter)), Head(iter))

collect(iter) == collect_from(<<>>, iter)

\* Variant of from_value: the seed is also marked as visited.
from_value_marked(value) ==
    [visited |-> {value}, inner |-> push_front(<<>>, value)]

from_value(value) ==
    [visited |-> {}, inner |-> push_front(<<>>, value)]

\* Variant of from_iter: duplicates are dropped while the source is drained.
RECURSIVE drain_distinct(_, _)
drain_distinct(acc, iter) ==
    IF iter = <<>> THEN acc
    ELSE IF \E i \in 1 .. Len(acc) : acc[i] = Head(iter)
         THEN drain_distinct(acc, Tail(iter))
         ELSE drain_distinct(Append(acc, Head(iter)), Tail(iter))

from_iter_distinct(iter) ==
    [visited |-> {}, inner |-> drain_distinct(<<>>, iter)]

from_iter(iter) ==
    [visited |-> {}, inner |-> collect(iter)]

\* Variant of skip_visited: the adapter drops the duplicates of the producer.
skip_visited_distinct(iter) == from_iter_distinct(iter)

\* IntoUnvisitedIterator::skip_visited, for any Iterator<Item = T>.
skip_visited(iter) == from_iter(iter)

\* Variant of next: the returned value is not inserted into visited.
RECURSIVE next_no_insert(_, _)
next_no_insert(vis, inn) ==
    IF inn = <<>> THEN [visited |-> vis, inner |-> inn, ret |-> None]
    ELSE IF Head(inn) \in vis
         THEN next_no_insert(vis, Tail(inn))
         ELSE [visited |-> vis, inner |-> Tail(inn), ret |-> Head(inn)]

\* Variant of next: the front element is returned without the visited check.
next_no_check(vis, inn) ==
    IF inn = <<>> THEN [visited |-> vis, inner |-> inn, ret |-> None]
    ELSE [visited |-> vis \cup {Head(inn)}, inner |-> Tail(inn), ret |-> Head(inn)]

\* Variant of next: a visited front element ends the call (break for continue).
next_break_on_visited(vis, inn) ==
    IF inn = <<>> THEN [visited |-> vis, inner |-> inn, ret |-> None]
    ELSE IF Head(inn) \in vis
         THEN [visited |-> vis, inner |-> Tail(inn), ret |-> None]
         ELSE [visited |-> vis \cup {Head(inn)}, inner |-> Tail(inn), ret |-> Head(inn)]

\* Variant of next: the visited test is negated (unvisited values are skipped).
RECURSIVE next_inverted(_, _)
next_inverted(vis, inn) ==
    IF inn = <<>> THEN [visited |-> vis, inner |-> inn, ret |-> None]
    ELSE IF Head(inn) \notin vis
         THEN next_inverted(vis, Tail(inn))
         ELSE [visited |-> vis \cup {Head(inn)}, inner |-> Tail(inn), ret |-> Head(inn)]

\* Variant of next: pop_back for pop_front.
RECURSIVE next_pop_back(_, _)
next_pop_back(vis, inn) ==
    IF inn = <<>> THEN [visited |-> vis, inner |-> inn, ret |-> None]
    ELSE LET nxt  == inn[Len(inn)]
             rest == SubSeq(inn, 1, Len(inn) - 1)
         IN  IF nxt \in vis
             THEN next_pop_back(vis, rest)
             ELSE [visited |-> vis \cup {nxt}, inner |-> rest, ret |-> nxt]

\* Variant of next: the returned value is read with front() and left pending.
RECURSIVE next_keep_returned(_, _)
next_keep_returned(vis, inn) ==
    IF inn = <<>> THEN [visited |-> vis, inner |-> inn, ret |-> None]
    ELSE IF Head(inn) \in vis
         THEN next_keep_returned(vis, Tail(inn))
         ELSE [visited |-> vis \cup {Head(inn)}, inner |-> inn, ret |-> Head(inn)]

\* Variant of next: running dry clears visited, so that a traversal can restart.
RECURSIVE next_clear_on_end(_, _)
next_clear_on_end(vis, inn) ==
    IF inn = <<>> THEN [visited |-> {}, inner |-> inn, ret |-> None]
    ELSE IF Head(inn) \in vis
         THEN next_clear_on_end(vis, Tail(inn))
         ELSE [visited |-> vis \cup {Head(inn)}, inner |-> Tail(inn), ret |-> Head(inn)]

\* Iterator::next: the while-let loop, one recursion per pop_front.
RECURSIVE next(_, _)
next(vis, inn) ==
    IF inn = <<>> THEN [visited |-> vis, inner |-> inn, ret |-> None]
    ELSE LET nxt  == Head(inn)
             rest == Tail(inn)
         IN  IF nxt \in vis
             THEN next(vis, rest)
             ELSE [visited |-> vis \cup {nxt}, inner |-> rest, ret |-> nxt]

\* Variant of pop_step: a visited front element is only looked at (front() for
\* pop_front()), so the loop meets it again.
pop_step_peek(vis, inn) ==
    IF inn = <<>> THEN [visited |-> vis, inner |-> inn, ret |-> None, done |-> TRUE]
    ELSE IF Head(inn) \in vis
         THEN [visited |-> vis, inner |-> inn, ret |-> None, done |-> FALSE]
         ELSE [visited |-> vis \cup {Head(inn)}, inner |-> Tail(inn),
               ret |-> Head(inn), done |-> TRUE]

\* One iteration of the while-let loop of next: pop_front, then either leave
\* the loop with None, continue, or insert and return.  done tells whether the
\* call returns in this iteration.
pop_step(vis, inn) ==
    IF inn = <<>> THEN [visited |-> vis, inner |-> inn, ret |-> None, done |-> TRUE]
    ELSE IF Head(inn) \in vis
         THEN [visited |-> vis, inner |-> Tail(inn), ret |-> None, done |-> FALSE]
         ELSE [visited |-> vis \cup {Head(inn)}, inner |-> Tail(inn),
               ret |-> Head(inn), done |-> TRUE]

\* ------------------------------------------------------------------ state
VARIABLES
    visited,    \* the struct's HashSet
    inner,      \* the struct's VecDeque, front first
    ctor,       \* history: "from_value", "from_iter" or "skip_visited"
    src,        \* history: the constructor's argument as a sequence; only a
                \*          from_value instance keeps it after its first push
    pushed,     \* history: TRUE once push_front or push_back was called
    pc,         \* "idle" between calls, "next" inside the loop of next (only the
                \* specification that runs the loop iteration by iteration uses it)
    inserted,   \* history: the values handed to the constructor or to a push
    twin,       \* a second instance, built by from_iter on the same source and
                \* given the same calls; twin.ret is what its last next returned
    yielded,    \* history: the values next has returned (Some), in call order
    log,        \* history: the most recent calls, oldest first, at most depth,
                \*          each with the visited set as the call left it
    depth,      \* how many calls log remembers: MaxLog, or 1 in the
                \* specifications whose properties look at the last call only
    complete,   \* history: TRUE while log holds every call since construction
    before      \* history: the two fields as they were before the last call

vars == <<visited, inner, ctor, src, pushed, yielded, log, complete, before, twin,
          inserted, pc, depth>>

Entry(op, arg, ret, vis) == [op |-> op, arg |-> arg, ret |-> ret, visited |-> vis]

Logged(e) ==
    /\ log' = IF Len(log) < depth THEN Append(log, e) ELSE Append(Tail(log), e)
    /\ complete' = (complete /\ Len(log) < depth)

Record(e) ==
    /\ Logged(e)
    /\ before' = [visited |-> visited, inner |-> inner]

InitFromValue ==
    \E v \in Values :
        /\ visited = from_value(v).visited
        /\ inner = from_value(v).inner
        /\ ctor = "from_value"
        /\ src = <<v>>

InitFromIter ==
    \E S \in Sources :
        /\ visited = from_iter(S).visited
        /\ inner = from_iter(S).inner
        /\ ctor = "from_iter"
        /\ src = S

InitSkipVisited ==
    \E S \in Sources :
        /\ visited = skip_visited(S).visited
        /\ inner = skip_visited(S).inner
        /\ ctor = "skip_visited"
        /\ src = S

Twin(t, ret) == [visited |-> t.visited, inner |-> t.inner, ret |-> ret]

Constructed ==
    /\ InitFromValue \/ InitFromIter \/ InitSkipVisited
    /\ twin = Twin(from_iter(src), None)
    /\ inserted = {src[i] : i \in 1 .. Len(src)}
    /\ pc = "idle"
    /\ pushed = FALSE
    /\ yielded = <<>>
    /\ log = <<>>
    /\ complete = TRUE
    /\ before = [visited |-> visited, inner |-> inner]

Init == Constructed /\ depth = MaxLog

InitShort == Constructed /\ depth = 1

PushFront ==
    \E v \in Values :
        /\ Len(inner) < MaxPending
        /\ inner' = push_front(inner, v)
        /\ pushed' = TRUE
        /\ inserted' = inserted \cup {v}
        /\ src' = IF ctor = "from_value" THEN src ELSE <<>>
        /\ twin' = [twin EXCEPT !.inner = push_front(twin.inner, v)]
        /\ Record(Entry("push_front", v, None, visited))
        /\ UNCHANGED <<visited, ctor, yielded, pc, depth>>

PushBack ==
    \E v \in Values :
        /\ Len(inner) < MaxPending
        /\ inner' = push_back(inner, v)
        /\ pushed' = TRUE
        /\ inserted' = inserted \cup {v}
        /\ src' = IF ctor = "from_value" THEN src ELSE <<>>
        /\ twin' = [twin EXCEPT !.inner = push_back(twin.inner, v)]
        /\ Record(Entry("push_back", v, None, visited))
        /\ UNCHANGED <<visited, ctor, yielded, pc, depth>>

CallNext ==
    LET r == next(visited, inner)
    IN  /\ visited' = r.visited
        /\ inner' = r.inner
        /\ yielded' = IF r.ret = None THEN yielded ELSE Append(yielded, r.ret)
        /\ twin' = next(twin.visited, twin.inner)
        /\ Record(Entry("next", None, r.ret, r.visited))
        /\ UNCHANGED <<ctor, src, pushed, inserted, pc, depth>>

Next == PushFront \/ PushBack \/ CallNext

Spec == Init /\ [][Next]_vars

\* ---- next run one loop iteration at a time (the calls themselves do not
\* overlap: the owner holds &mut self, so a push waits for next to return)

BeginNext ==
    /\ pc = "idle"
    /\ pc' = "next"
    /\ before' = [visited |-> visited, inner |-> inner]
    /\ UNCHANGED <<visited, inner, ctor, src, pushed, yielded, log, complete, twin,
                   inserted, depth>>

PopStep ==
    /\ pc = "next"
    /\ LET r == pop_step(visited, inner)
       IN  /\ visited' = r.visited
           /\ inner' = r.inner
           /\ IF r.done
              THEN /\ pc' = "idle"
                   /\ yielded' = IF r.ret = None THEN yielded ELSE Append(yielded, r.ret)
                   /\ twin' = next(twin.visited, twin.inner)
                   /\ Logged(Entry("next", None, r.ret, r.visited))
              ELSE UNCHANGED <<pc, yielded, twin, log, complete>>
    /\ UNCHANGED <<ctor, src, pushed, inserted, before, depth>>

StepPush ==
    /\ pc = "idle"
    /\ PushFront \/ PushBack

NextSteps == BeginNext \/ PopStep \/ StepPush

\* A call of next that has started keeps running: nothing in the loop waits.
SpecSteps == InitShort /\ [][NextSteps]_vars /\ WF_vars(PopStep)

\* ---- an owner that keeps calling next: a call of next is never put off for
\* ever (pushes may still come in between, as often as the owner likes)
SpecFair == InitShort /\ [][Next]_vars /\ WF_vars(CallNext)

\* ------------------------------------------------- vocabulary of the claims

IsPrefix(s, t) == Len(s) <= Len(t) /\ \A i \in 1 .. Len(s) : s[i] = t[i]

NoDuplicates(s) == \A i, j \in 1 .. Len(s) : i # j => s[i] # s[j]

\* The first occurrences of the values of s, in the order of first occurrence.
IsFirst(s, i) == \A j \in 1 .. (i - 1) : s[j] # s[i]

RECURSIVE FirstFrom(_, _)
FirstFrom(s, i) ==
    IF i > Len(s) THEN <<>>
    ELSE (IF IsFirst(s, i) THEN <<s[i]>> ELSE <<>>) \o FirstFrom(s, i + 1)

FirstOccurrences(s) == FirstFrom(s, 1)

\* The k-th most recent call, Ago(0) being the last one.
Ago(k) == log[Len(log) - k]

IsPush(e) == e.op \in {"push_front", "push_back"}
IsNext(e) == e.op = "next"
ReturnedEnd(e) == e.op = "next" /\ e.ret = None

\* The log is the whole call history of an instance and reads as given.
Script(c, ops) ==
    /\ ctor = c
    /\ complete
    /\ Len(log) = Len(ops)
    /\ \A i \in 1 .. Len(ops) : log[i].op = ops[i]

\* ------------------------------------------------------------------ claims

\* C1: no two calls of next return equal values: a value once returned is
\* never returned again, even if it is pushed again afterwards.
NoRepeat == NoDuplicates(yielded)

\* A produced value was pushed again and next was called after that.
NoRepeatWitness ==
    /\ Len(log) >= 3
    /\ IsNext(Ago(2)) /\ Ago(2).ret # None
    /\ IsPush(Ago(1)) /\ Ago(1).arg = Ago(2).ret
    /\ IsNext(Ago(0))

\* C2: from_iter(S) followed only by next calls returns the first occurrences
\* of the values of S in the order of their first occurrence, and end exactly
\* when all of them have been returned.
BulkDedup ==
    (ctor = "from_iter" /\ ~pushed) =>
        /\ IsPrefix(yielded, FirstOccurrences(src))
        /\ (Len(log) > 0 /\ ReturnedEnd(Ago(0))) => yielded = FirstOccurrences(src)

\* A source with a repeated value was drained to the end.
BulkDedupWitness ==
    /\ ctor = "from_iter" /\ ~pushed
    /\ ~NoDuplicates(src)
    /\ Len(FirstOccurrences(src)) >= 2
    /\ yielded = FirstOccurrences(src)
    /\ Len(log) > 0 /\ ReturnedEnd(Ago(0))

\* C3: for S without duplicates, from_iter(S) followed only by next calls
\* returns exactly the elements of S in S's order, Len(S) of them, and end
\* on the call after the last one.
BulkOrder ==
    (ctor = "from_iter" /\ ~pushed /\ NoDuplicates(src)) =>
        /\ IsPrefix(yielded, src)
        /\ (Len(log) > 0 /\ ReturnedEnd(Ago(0))) => yielded = src

\* A duplicate-free source of three or more values was drained to the end.
BulkOrderWitness ==
    /\ ctor = "from_iter" /\ ~pushed
    /\ NoDuplicates(src) /\ Len(src) >= 3
    /\ yielded = src
    /\ Len(log) > 0 /\ ReturnedEnd(Ago(0))

\* The instance was built by from_value(v0), its first call was `op` with a
\* value other than v0, and every call since was next.
SeedThenPush(op) ==
    /\ ctor = "from_value" /\ complete
    /\ Len(log) >= 1
    /\ log[1].op = op /\ log[1].arg # src[1]
    /\ \A i \in 2 .. Len(log) : IsNext(log[i])

\* C4: after from_value(v0) and push_front(v1) with v1 # v0 the calls of next
\* return v1, then v0, then end; and right after any push_front(v) the front
\* element of pending is v.
FrontInsertion ==
    /\ (Len(log) > 0 /\ Ago(0).op = "push_front") =>
            (inner # <<>> /\ Head(inner) = Ago(0).arg)
    /\ SeedThenPush("push_front") =>
            /\ Len(log) >= 2 => log[2].ret = log[1].arg
            /\ Len(log) >= 3 => log[3].ret = src[1]
            /\ Len(log) >= 4 => log[4].ret = None
            /\ Len(log) = 3 => next(visited, inner).ret = None

FrontInsertionWitness ==
    /\ SeedThenPush("push_front")
    /\ Len(log) = 3
    /\ yielded = <<log[1].arg, src[1]>>

\* C5: after from_value(v0) and push_back(v1) with v1 # v0 the calls of next
\* return v0, then v1, then end; and right after any push_back(v) the back
\* element of pending is v.
BackInsertion ==
    /\ (Len(log) > 0 /\ Ago(0).op = "push_back") =>
            (inner # <<>> /\ inner[Len(inner)] = Ago(0).arg)
    /\ SeedThenPush("push_back") =>
            /\ Len(log) >= 2 => log[2].ret = src[1]
            /\ Len(log) >= 3 => log[3].ret = log[1].arg
            /\ Len(log) >= 4 => log[4].ret = None
            /\ Len(log) = 3 => next(visited, inner).ret = None

BackInsertionWitness ==
    /\ SeedThenPush("push_back")
    /\ Len(log) = 3
    /\ yielded = <<src[1], log[1].arg>>

\* The last three calls were: next returning end, one push, next.
EndPushNext ==
    /\ Len(log) >= 3
    /\ ReturnedEnd(Ago(2))
    /\ IsPush(Ago(1))
    /\ IsNext(Ago(0))

\* C6: when next has just returned end, one push (front or back) of a value
\* that is not in the produced set, followed by next, returns that value.
Revival ==
    (EndPushNext /\ Ago(1).arg \notin Ago(2).visited) => Ago(0).ret = Ago(1).arg

\* The instance had produced something, ran dry, and was pushed a new value.
RevivalWitness ==
    /\ EndPushNext
    /\ Ago(2).visited # {}
    /\ Ago(1).arg \notin Ago(2).visited

\* C7: when next has just returned end, pushing (front or back) a value that is
\* already produced and calling next returns end again, leaves the produced
\* set unchanged and pending empty; a push of a never-produced value after
\* that is still returned by the next call of next.
NoRevivalByProduced ==
    (EndPushNext /\ Ago(1).arg \in Ago(2).visited) =>
        /\ Ago(0).ret = None
        /\ visited = Ago(2).visited
        /\ inner = <<>>
        /\ \A w \in Values \ visited :
                /\ next(visited, push_front(inner, w)).ret = w
                /\ next(visited, push_back(inner, w)).ret = w

\* A produced value was pushed after the end while a new value still exists.
NoRevivalByProducedWitness ==
    /\ EndPushNext
    /\ Ago(1).arg \in Ago(2).visited
    /\ visited # Values

\* C8: from_value(v) leaves pending = <<v>> and the produced set empty; the
\* first next then returns v and the second returns end.
FromValueState ==
    ctor = "from_value" =>
        /\ log = <<>> => (inner = src /\ Len(inner) = 1 /\ visited = {})
        /\ (complete /\ Len(log) >= 1 /\ IsNext(log[1])) => log[1].ret = src[1]
        /\ (complete /\ Len(log) >= 2 /\ IsNext(log[1]) /\ IsNext(log[2])) =>
                log[2].ret = None

FromValueStateWitness ==
    /\ ctor = "from_value" /\ complete
    /\ Len(log) = 2
    /\ IsNext(log[1]) /\ IsNext(log[2])

\* C9: from_iter(S) leaves pending equal to S element for element (same
\* length, same order, duplicates kept) and the produced set empty.
FromIterState ==
    (ctor = "from_iter" /\ log = <<>>) => (inner = src /\ visited = {})

\* A freshly built instance whose source repeats a value.
FromIterStateWitness ==
    /\ ctor = "from_iter" /\ log = <<>>
    /\ Len(src) >= 3
    /\ ~NoDuplicates(src)

\* C10: once next has returned end, a further call of next with no push in
\* between also returns end and changes neither pending nor the produced set.
ExhaustionStable ==
    (Len(log) >= 2 /\ ReturnedEnd(Ago(1)) /\ IsNext(Ago(0))) =>
        /\ Ago(0).ret = None
        /\ inner = before.inner
        /\ visited = before.visited
        /\ visited = Ago(1).visited

\* Two calls of next in a row after something had been produced.
ExhaustionStableWitness ==
    /\ Len(log) >= 2
    /\ ReturnedEnd(Ago(1)) /\ IsNext(Ago(0))
    /\ visited # {}

\* C11: the instance skip_visited builds from a producer of S is in the state
\* from_iter(S) builds (pending = S, produced set empty), and under the same
\* calls of push_front, push_back and next the two instances stay in the same
\* state and next returns the same result on both.
AdaptationEquivalence ==
    ctor = "skip_visited" =>
        /\ log = <<>> => (inner = from_iter(src).inner /\ visited = from_iter(src).visited)
        /\ inner = twin.inner
        /\ visited = twin.visited
        /\ (Len(log) > 0 /\ IsNext(Ago(0))) => Ago(0).ret = twin.ret

\* An adapted instance that was pushed to and has skipped a duplicate.
AdaptationEquivalenceWitness ==
    /\ ctor = "skip_visited"
    /\ pushed
    /\ Len(log) > 0 /\ IsNext(Ago(0)) /\ Ago(0).ret # None
    /\ Len(before.inner) - Len(inner) >= 2

\* The values of a sequence.
Elems(s) == {s[i] : i \in 1 .. Len(s)}

\* The position of the first element of s that is not in vis, 0 if there is none.
FirstUnvisited(vis, s) ==
    IF \A i \in 1 .. Len(s) : s[i] \in vis THEN 0
    ELSE CHOOSE i \in 1 .. Len(s) :
            s[i] \notin vis /\ \A j \in 1 .. (i - 1) : s[j] \in vis

LastWasNext == Len(log) > 0 /\ IsNext(Ago(0))

\* How many elements the last call took off pending.
Removed == Len(before.inner) - Len(inner)

\* C12: one call of next removes a non-empty prefix of pending (nothing when
\* pending is empty) and leaves the rest as it was; every removed element but
\* the returned one was already produced; the returned value is the first
\* element of the old pending that was not produced, and the produced set
\* grows by exactly that value; when next returns end the set is unchanged.
StepShape ==
    LastWasNext =>
        LET old == before.inner
            r   == Ago(0).ret
        IN  /\ Removed \in 0 .. Len(old)
            /\ (old = <<>>) <=> (Removed = 0)
            /\ inner = SubSeq(old, Removed + 1, Len(old))
            /\ r # None =>
                    /\ Removed = FirstUnvisited(before.visited, old)
                    /\ Removed >= 1
                    /\ r = old[Removed]
                    /\ r \notin before.visited
                    /\ \A i \in 1 .. (Removed - 1) : old[i] \in before.visited
                    /\ visited = before.visited \cup {r}
            /\ r = None =>
                    /\ \A i \in 1 .. Removed : old[i] \in before.visited
                    /\ visited = before.visited

\* A call of next that skipped a produced value, returned the one behind it
\* and left a third one pending.
StepShapeWitness ==
    /\ LastWasNext
    /\ Ago(0).ret # None
    /\ Removed >= 2
    /\ inner # <<>>

\* C13: next returns end if and only if every element of pending (possibly
\* none) is already produced; whenever it returns end, pending is empty after.
EndCondition ==
    LastWasNext =>
        /\ (Ago(0).ret = None) <=> (Elems(before.inner) \subseteq before.visited)
        /\ Ago(0).ret = None => inner = <<>>

\* next returned end on a pending queue that held only produced values.
EndConditionWitness ==
    /\ LastWasNext
    /\ Ago(0).ret = None
    /\ Len(before.inner) >= 2

\* C14: push_front(v) makes pending v followed by the old pending, push_back(v)
\* the old pending followed by v; pending grows by one element and the produced
\* set is unchanged, also for a v that is already pending or already produced.
PushShape ==
    (Len(log) > 0 /\ IsPush(Ago(0))) =>
        /\ Ago(0).op = "push_front" => inner = <<Ago(0).arg>> \o before.inner
        /\ Ago(0).op = "push_back" => inner = before.inner \o <<Ago(0).arg>>
        /\ Len(inner) = Len(before.inner) + 1
        /\ visited = before.visited

\* A push of a value that was both pending and produced.
PushShapeWitness ==
    /\ Len(log) > 0 /\ IsPush(Ago(0))
    /\ Ago(0).arg \in Elems(before.inner)
    /\ Ago(0).arg \in before.visited

\* C15: across every call the produced set after the call is a superset of
\* the produced set before it.
ProducedNeverShrinks ==
    /\ before.visited \subseteq visited
    /\ Len(log) > 0 => Ago(0).visited = visited
    /\ \A i \in 1 .. (Len(log) - 1) : log[i].visited \subseteq log[i + 1].visited

\* A non-empty produced set has lived through a push and an end.
ProducedNeverShrinksWitness ==
    /\ Len(log) >= 3
    /\ log[1].visited # {}
    /\ IsPush(Ago(1))
    /\ ReturnedEnd(Ago(0))

\* C16 as stated (ACTIVE: pending is non-empty): every call of next that yields
\* an item leaves the instance ACTIVE.
YieldLeavesActive ==
    (LastWasNext /\ Ago(0).ret # None) => inner # <<>>

\* C16 as amended: a call of next that yields an item starts ACTIVE, and leaves
\* the instance ACTIVE exactly when the old pending held elements behind the
\* yielded one (EXHAUSTED when the yielded item was its last element).
YieldActiveIffMore ==
    (LastWasNext /\ Ago(0).ret # None) =>
        /\ before.inner # <<>>
        /\ (inner # <<>>) <=>
                (FirstUnvisited(before.visited, before.inner) < Len(before.inner))

\* next yielded the last element of pending.
YieldActiveIffMoreWitness ==
    /\ LastWasNext /\ Ago(0).ret # None
    /\ inner = <<>>
    /\ Removed >= 2

\* C18: the produced set is exactly the set of the values next has returned.
ProducedIsHistory == visited = Elems(yielded)

\* Two values were returned, with pushes in between or around them.
ProducedIsHistoryWitness ==
    /\ Len(yielded) >= 2
    /\ pushed
    /\ LastWasNext /\ Ago(0).ret # None

\* C19: every value ever inserted (by a constructor or a push) is still
\* pending or is produced; what next takes off pending is produced.
NoItemLost ==
    /\ inserted \subseteq (Elems(inner) \cup visited)
    /\ LastWasNext => \A i \in 1 .. Removed : before.inner[i] \in visited

\* next has taken several elements off pending of an instance that was
\* pushed to, returning the last of them.
NoItemLostWitness ==
    /\ pushed
    /\ LastWasNext
    /\ Removed >= 2
    /\ Ago(0).ret # None

\* The loop, run to its end, does what the operator next does in one go.
LoopIsNext ==
    (pc = "idle" /\ LastWasNext) =>
        LET r == next(before.visited, before.inner)
        IN  visited = r.visited /\ inner = r.inner /\ Ago(0).ret = r.ret

InCallOrJustAfter == pc = "next" \/ LastWasNext

\* C17: a call of next terminates, having removed at most as many elements as
\* pending held when it started, and returns one value or end.
NextTerminates ==
    /\ [](InCallOrJustAfter => Removed \in 0 .. Len(before.inner))
    /\ []((pc = "idle" /\ LastWasNext) => Ago(0).ret \in Option)
    /\ (pc = "next") ~> (pc = "idle")

\* A call of next has returned after going round the loop three times or more.
NextTerminatesWitness ==
    /\ pc = "idle"
    /\ LastWasNext
    /\ Removed >= 3

\* Every call from some point on is a call of next: the pushes were finitely many.
PushesCease == <>[]LastWasNext

\* next has returned end, everything inserted has been returned, each once.
AllProduced ==
    /\ LastWasNext /\ Ago(0).ret = None
    /\ Elems(yielded) = inserted
    /\ NoDuplicates(yielded)

====
